---- MODULE Spec2Model ----
(***************************************************************************)
(* Advent of Code 2015, days 1 and 2 (src/src/aoc2015/day1.rs, day2.rs).   *)
(*                                                                         *)
(* Day 1 is a character-stream scanner over the first line of the input;   *)
(* day 2 parses "LxWxH" records and folds an arithmetic formula over them. *)
(* Texts are sequences of one-character strings.  Values of type i64/u64   *)
(* are little-endian sequences of base-256 limbs, because the arithmetic   *)
(* of day 2 has to be followed bit for bit up to and beyond 2^63.          *)
(***************************************************************************)
EXTENDS Integers, Sequences, FiniteSets, TLC

VARIABLES
    input,      \* day 1: the text handed to part1 and part2
    pc,         \* day 1: "part1", "part2" or "done"
    n1,         \* day 1: items part1 has pulled out of parse_directions
    acc1,       \* day 1: the running sum of part1
    r1,         \* day 1: what part1 returned
    n2,         \* day 1: items part2 has pulled out of parse_directions
    floor,      \* day 1: the local `floor` of part2
    r2,         \* day 1: what part2 returned
    text,       \* day 2: the input, as the sequence str::lines yields
    checks,     \* day 2: TRUE when the build has overflow checks (debug)
    dpc,        \* day 2: "part1", "part2" or "done"
    k,          \* day 2: lines the running entry point has consumed
    sum,        \* day 2: the accumulator of Iterator::sum
    items1,     \* day 2: what the map closure of part1 yielded, per line
    items2,     \* day 2: what the map closure of part2 yielded, per line
    d1,         \* day 2: what part1 returned
    d2          \* day 2: what part2 returned

day1vars == <<input, pc, n1, acc1, r1, n2, floor, r2>>
day2vars == <<text, checks, dpc, k, sum, items1, items2, d1, d2>>
vars == <<input, pc, n1, acc1, r1, n2, floor, r2,
          text, checks, dpc, k, sum, items1, items2, d1, d2>>

Min2(a, b) == IF a <= b THEN a ELSE b

(***************************************************************************)
(*                               DAY 1                                     *)
(***************************************************************************)

\* Longest day 1 input explored.
MaxLen == 5

\* The characters day 1 inputs are built from: the two directions, one
\* character outside the alphabet, and the two line-ending characters.
Chars == {"(", ")", "*", "\n", "\r"}

Inputs == UNION {[1..n -> Chars] : n \in 0..MaxLen}

\* Results of day 1: tag "Ok" carries val, tag "InvalidCharacter" carries ch.
Pending == [tag |-> "Pending", val |-> 0, ch |-> ""]
Ok(n) == [tag |-> "Ok", val |-> n, ch |-> ""]
InvalidCharacter(c) == [tag |-> "InvalidCharacter", val |-> 0, ch |-> c]
NeverBasement == [tag |-> "NeverBasement", val |-> 0, ch |-> ""]
None == [tag |-> "None", val |-> 0, ch |-> ""]

\* Direction with a catch-all arm that maps any other character to no move.
DirectionMapsAll(c) ==
    IF c = "(" THEN Ok(1) ELSE IF c = ")" THEN Ok(-1) ELSE Ok(0)

\* The closure of parse_directions: one character to a change of floor.
Direction(c) ==
    IF c = "(" THEN Ok(1)
    ELSE IF c = ")" THEN Ok(-1)
    ELSE InvalidCharacter(c)

\* NextChar without lines().take(1): every character of the text comes out.
NextCharNoLines(s, n) ==
    IF n + 1 > Len(s) THEN None ELSE Ok(n + 1)

\* input.lines().take(1).flat_map(|l| l.chars()), pulled once more after n
\* characters came out of it.  str::lines ends a line at "\n" or at "\r\n";
\* a "\r" that is not directly followed by "\n" is a character of the line,
\* and take(1) ends the iterator with the first line.
NextChar(s, n) ==
    LET i == n + 1
    IN  IF i > Len(s) THEN None
        ELSE IF s[i] = "\n" THEN None
        ELSE IF s[i] = "\r" /\ i < Len(s) /\ s[i + 1] = "\n" THEN None
        ELSE Ok(i)

\* The next item of parse_directions(s) after n items: None at the end.
parse_directions(s, n) ==
    LET nx == NextChar(s, n)
    IN  IF nx.tag = "None" THEN None ELSE Direction(s[nx.val])

\* BelowZero with the comparison off by one.
BelowZeroOrAt(f) == f <= 0

\* The test of part2 that ends the scan.
BelowZero(f) == f < 0

\* Position without the step from enumerate()'s 0-based index.
PositionZeroBased(i) == i

\* The position part2 reports for the item enumerate() numbered i.
Position(i) == i + 1

InitDay1 ==
    /\ input \in Inputs
    /\ pc = "part1"
    /\ n1 = 0 /\ acc1 = 0 /\ r1 = Pending
    /\ n2 = 0 /\ floor = 0 /\ r2 = Pending
    /\ text = <<>> /\ checks = FALSE /\ dpc = "done" /\ k = 0 /\ sum = <<>>
    /\ items1 = <<>> /\ items2 = <<>> /\ d1 = <<>> /\ d2 = <<>>

\* part1: Iterator::sum over Result items pulls one item; it adds an Ok
\* item, returns the first Err item, and returns Ok(sum) at the end.
Part1 ==
    /\ pc = "part1"
    /\ LET item == parse_directions(input, n1)
       IN  IF item.tag = "None"
           THEN /\ r1' = Ok(acc1)
                /\ pc' = "part2"
                /\ UNCHANGED <<n1, acc1>>
           ELSE IF item.tag = "Ok"
           THEN /\ acc1' = acc1 + item.val
                /\ n1' = n1 + 1
                /\ UNCHANGED <<r1, pc>>
           ELSE /\ r1' = item
                /\ n1' = n1 + 1
                /\ pc' = "part2"
                /\ UNCHANGED acc1
    /\ UNCHANGED <<input, n2, floor, r2>>
    /\ UNCHANGED day2vars

\* part2: one turn of the for loop, or the statement after the loop.
Part2 ==
    /\ pc = "part2"
    /\ LET item == parse_directions(input, n2)
       IN  IF item.tag = "None"
           THEN /\ r2' = NeverBasement
                /\ pc' = "done"
                /\ UNCHANGED <<n2, floor>>
           ELSE IF item.tag = "Ok"
           THEN /\ floor' = floor + item.val
                /\ n2' = n2 + 1
                /\ IF BelowZero(floor + item.val)
                   THEN r2' = Ok(Position(n2)) /\ pc' = "done"
                   ELSE UNCHANGED <<r2, pc>>
           ELSE /\ r2' = item
                /\ n2' = n2 + 1
                /\ pc' = "done"
                /\ UNCHANGED floor
    /\ UNCHANGED <<input, n1, acc1, r1>>
    /\ UNCHANGED day2vars

NextDay1 == Part1 \/ Part2

\* day1::part1 followed by day1::part2 on one input.
SpecDay1 == InitDay1 /\ [][NextDay1]_vars

(***************************************************************************)
(* Day 1, properties.  The first line and its running totals are stated    *)
(* here by counting, independently of the scanner above.                   *)
(***************************************************************************)

MinOf(S) == CHOOSE x \in S : \A y \in S : x <= y

\* The first line of s: the text before the first "\n", less one "\r" that
\* directly precedes that "\n".
FirstLine(s) ==
    LET nl == {i \in 1..Len(s) : s[i] = "\n"}
        raw == IF nl = {} THEN s ELSE SubSeq(s, 1, MinOf(nl) - 1)
    IN  IF nl # {} /\ Len(raw) > 0 /\ raw[Len(raw)] = "\r"
        THEN SubSeq(raw, 1, Len(raw) - 1)
        ELSE raw

Count(l, c, p) == Cardinality({i \in 1..p : l[i] = c})

\* The running total after the first p characters of l.
Running(l, p) == Count(l, "(", p) - Count(l, ")", p)

OnlyParens(l) == \A i \in 1..Len(l) : l[i] \in {"(", ")"}

NegPrefixes(l) == {p \in 1..Len(l) : Running(l, p) < 0}

Invalids(l) == {i \in 1..Len(l) : l[i] \notin {"(", ")"}}

C2_Part2FirstBasement ==
    LET l == FirstLine(input)
    IN  (OnlyParens(l) /\ NegPrefixes(l) # {}) =>
            LET p == MinOf(NegPrefixes(l))
            IN  /\ n2 <= p
                /\ Running(l, p) = -1
                /\ \A q \in 0..(p - 1) : Running(l, q) >= 0
                /\ pc = "done" => (r2 = Ok(p) /\ n2 = p)

C2_Witness ==
    /\ pc = "done"
    /\ input = <<"(", ")", ")", "(", ")">>
    /\ r2 = Ok(3)
    /\ n2 = 3

MaxLines == 2

\* Values of u64 and i64 are little-endian sequences of limbs below Base
\* with no leading zero limb (zero is the empty sequence); an i64 is the
\* 64-bit two's-complement pattern read as such a number.
Base == 2 ^ 8

RECURSIVE Norm(_)
Norm(a) ==
    IF a = <<>> THEN a
    ELSE IF a[Len(a)] = 0 THEN Norm(SubSeq(a, 1, Len(a) - 1))
    ELSE a

RECURSIVE AddC(_, _, _)
AddC(a, b, c) ==
    IF a = <<>> /\ b = <<>>
    THEN IF c = 0 THEN <<>> ELSE <<c>>
    ELSE LET x == (IF a = <<>> THEN 0 ELSE Head(a))
                  + (IF b = <<>> THEN 0 ELSE Head(b)) + c
         IN  <<x % Base>> \o AddC(IF a = <<>> THEN a ELSE Tail(a),
                                  IF b = <<>> THEN b ELSE Tail(b),
                                  x \div Base)

RECURSIVE MulC(_, _, _)
MulC(a, m, c) ==
    IF a = <<>>
    THEN IF c = 0 THEN <<>> ELSE <<c % Base>> \o MulC(a, m, c \div Base)
    ELSE LET x == Head(a) * m + c
         IN  <<x % Base>> \o MulC(Tail(a), m, x \div Base)

\* Exact sum and product of two numbers, of any size.
BAdd(a, b) == Norm(AddC(a, b, 0))

RECURSIVE BMul(_, _)
BMul(a, b) ==
    IF a = <<>> \/ b = <<>> THEN <<>>
    ELSE BAdd(Norm(MulC(a, Head(b), 0)), Norm(<<0>> \o BMul(a, Tail(b))))

BLess(a, b) ==
    IF Len(a) # Len(b) THEN Len(a) < Len(b)
    ELSE \E i \in 1..Len(a) :
            /\ a[i] < b[i]
            /\ \A j \in (i + 1)..Len(a) : a[j] = b[j]

\* u64::MAX and i64::MAX.
U64Max == [i \in 1..8 |-> Base - 1]
I64Max == [i \in 1..8 |-> IF i = 8 THEN Base \div 2 - 1 ELSE Base - 1]

\* The low 64 bits of a number: what a wrapping operation keeps.
Trunc64(a) == Norm(SubSeq(a, 1, Min2(Len(a), 8)))

\* The sign of an i64 pattern, and the order of i64.
IsNeg(a) == Len(a) = 8 /\ a[8] >= Base \div 2
SLess(a, b) == IF IsNeg(a) # IsNeg(b) THEN IsNeg(a) ELSE BLess(a, b)

\* An i64 in the middle of a computation: its 64-bit pattern, and whether an
\* operation on the way to it overflowed.  The first overflow acts on exact
\* non-negative operands, so it is the exact result exceeding i64::MAX.
I64(a) == [val |-> a, ovf |-> FALSE]

I64Add(x, y) ==
    LET full == BAdd(x.val, y.val)
    IN  [val |-> Trunc64(full), ovf |-> x.ovf \/ y.ovf \/ BLess(I64Max, full)]

I64Mul(x, y) ==
    LET full == BMul(x.val, y.val)
    IN  [val |-> Trunc64(full), ovf |-> x.ovf \/ y.ovf \/ BLess(I64Max, full)]

\* Iterator::min of an array of three i64.
I64Min3(x, y, z) ==
    LET m == IF SLess(y.val, x.val) THEN y ELSE x
        n == IF SLess(z.val, m.val) THEN z ELSE m
    IN  [val |-> n.val, ovf |-> x.ovf \/ y.ovf \/ z.ovf]

\* Dimensions { length, width, height }.
Dimensions(l, w, h) == [length |-> l, width |-> w, height |-> h]

wrapping_paper(dimensions) ==
    LET length == I64(dimensions.length)
        width == I64(dimensions.width)
        height == I64(dimensions.height)
        a1 == I64Mul(length, width)
        a2 == I64Mul(width, height)
        a3 == I64Mul(length, height)
        min == I64Min3(a1, a2, a3)
        area == I64Add(I64Add(I64Add(I64(<<>>), a1), a2), a3)
    IN  I64Add(I64Mul(I64(<<2>>), area), min)

ribbon(dimensions) ==
    LET length == I64(dimensions.length)
        width == I64(dimensions.width)
        height == I64(dimensions.height)
        p1 == I64Add(length, width)
        p2 == I64Add(width, height)
        p3 == I64Add(length, height)
        min == I64Min3(p1, p2, p3)
        vol == I64Mul(I64Mul(length, width), height)
    IN  I64Add(I64Mul(I64(<<2>>), min), vol)

\* Results of day 2.  tag is "Ok" (val is the number), the name of a
\* ParseDimensionError variant, or "Panic" (an overflow check failed).
DOk(v) == [tag |-> "Ok", val |-> v]
DErr(e) == [tag |-> e, val |-> <<>>]
DPending == [tag |-> "Pending", val |-> <<>>]

Digits == <<"0", "1", "2", "3", "4", "5", "6", "7", "8", "9">>
IsDigit(c) == \E d \in 1..10 : Digits[d] = c
DigitVal(c) == (CHOOSE d \in 1..10 : Digits[d] = c) - 1

\* The digit loop of str::parse::<u64>: acc is the value so far.
RECURSIVE ParseDigits(_, _)
ParseDigits(t, acc) ==
    IF t = <<>> THEN DOk(acc)
    ELSE IF ~IsDigit(Head(t)) THEN DErr("InvalidDigit")
    ELSE LET nxt == BAdd(Norm(MulC(acc, 10, 0)), Norm(<<DigitVal(Head(t))>>))
         IN  IF BLess(U64Max, nxt) THEN DErr("PosOverflow")
             ELSE ParseDigits(Tail(t), nxt)

\* str::parse::<u64>: an optional "+", then decimal digits; no "-".
ParseU64(t) ==
    IF t = <<>> THEN DErr("Empty")
    ELSE IF Len(t) = 1 /\ Head(t) \in {"+", "-"} THEN DErr("InvalidDigit")
    ELSE ParseDigits(IF Head(t) = "+" THEN Tail(t) ELSE t, <<>>)

\* i64::try_from(term.parse::<u64>()?)? : one term to one dimension.
ParseTerm(t) ==
    LET u == ParseU64(t)
    IN  IF u.tag # "Ok" THEN DErr("InvalidType")
        ELSE IF BLess(I64Max, u.val) THEN DErr("TooLargeDimension")
        ELSE u

\* s.splitn(n, 'x') for n >= 1: at most n pieces, the last one the rest.
RECURSIVE SplitN(_, _)
SplitN(s, n) ==
    LET xs == {i \in 1..Len(s) : s[i] = "x"}
    IN  IF n = 1 \/ xs = {} THEN <<s>>
        ELSE LET i == CHOOSE j \in xs : \A j2 \in xs : j <= j2
             IN  <<SubSeq(s, 1, i - 1)>>
                 \o SplitN(SubSeq(s, i + 1, Len(s)), n - 1)

\* <Dimensions as FromStr>::from_str: tag "Ok" carries dim.
from_str(s) ==
    LET terms == SplitN(s, 3)
        Term(i) == IF Len(terms) < i THEN DErr("MissingDimensions")
                   ELSE ParseTerm(terms[i])
        none == Dimensions(<<>>, <<>>, <<>>)
    IN  IF Term(1).tag # "Ok" THEN [tag |-> Term(1).tag, dim |-> none]
        ELSE IF Term(2).tag # "Ok" THEN [tag |-> Term(2).tag, dim |-> none]
        ELSE IF Term(3).tag # "Ok" THEN [tag |-> Term(3).tag, dim |-> none]
        ELSE IF Len(terms) > 3 THEN [tag |-> "TooManyDimensions", dim |-> none]
        ELSE [tag |-> "Ok",
              dim |-> Dimensions(Term(1).val, Term(2).val, Term(3).val)]

\* str::lines: the pieces between "\n"s, each less a final "\r" when a "\n"
\* ended it; no last piece for a text that is empty or ends in "\n".
RECURSIVE Lines(_)
Lines(s) ==
    LET nl == {i \in 1..Len(s) : s[i] = "\n"}
    IN  IF s = <<>> THEN <<>>
        ELSE IF nl = {} THEN <<s>>
        ELSE LET i == CHOOSE j \in nl : \A j2 \in nl : j <= j2
                 raw == SubSeq(s, 1, i - 1)
                 line == IF Len(raw) > 0 /\ raw[Len(raw)] = "\r"
                         THEN SubSeq(raw, 1, Len(raw) - 1) ELSE raw
             IN  <<line>> \o Lines(SubSeq(s, i + 1, Len(s)))

\* The closures of part1 and part2: line.parse::<Dimensions>().map(f).
\* With overflow checks an overflowing formula panics; without, it wraps.
Item(parsed, v) ==
    IF parsed.tag # "Ok" THEN DErr(parsed.tag)
    ELSE IF v.ovf /\ checks THEN DErr("Panic")
    ELSE DOk(v.val)

Item1(line) ==
    LET parsed == from_str(line) IN Item(parsed, wrapping_paper(parsed.dim))

Item2(line) ==
    LET parsed == from_str(line) IN Item(parsed, ribbon(parsed.dim))

\* The lines day 2 inputs are put together from.
SampleLines == {
    <<"2", "x", "3", "x", "4">>,
    <<"1", "x", "1", "x", "1", "0">>,
    <<"2", "x", "3", "x", "4", "x", "5">>,
    <<"2", "x", "3">>,
    <<"-", "1", "x", "3", "x", "4">>,
    <<>>,
    <<"2", "x", "3", "x">>,
    <<"0", "x", "5", "x", "7">>,
    <<"3", "0", "3", "7", "0", "0", "0", "5", "0", "0", "x", "3", "0", "3", "7", "0", "0", "0", "5", "0", "0", "x", "1">>,
    <<"9", "2", "2", "3", "3", "7", "2", "0", "3", "6", "8", "5", "4", "7", "7", "5", "8", "0", "7", "x", "1", "x", "1">>,
    <<"9", "2", "2", "3", "3", "7", "2", "0", "3", "6", "8", "5", "4", "7", "7", "5", "8", "0", "8", "x", "1", "x", "1">>,
    <<"1", "8", "4", "4", "6", "7", "4", "4", "0", "7", "3", "7", "0", "9", "5", "5", "1", "6", "1", "6", "x", "1", "x", "1">>}

RECURSIVE Join(_)
Join(ls) ==
    IF ls = <<>> THEN <<>>
    ELSE IF Len(ls) = 1 THEN Head(ls)
    ELSE Head(ls) \o <<"\n">> \o Join(Tail(ls))

Texts == {Join(ls) : ls \in UNION {[1..n -> SampleLines] : n \in 0..MaxLines}}

InitDay2 ==
    /\ text \in Texts
    /\ checks \in BOOLEAN
    /\ dpc = "part1"
    /\ k = 0 /\ sum = <<>>
    /\ items1 = <<>> /\ items2 = <<>> /\ d1 = DPending /\ d2 = DPending
    /\ input = <<>> /\ pc = "done"
    /\ n1 = 0 /\ acc1 = 0 /\ r1 = Pending
    /\ n2 = 0 /\ floor = 0 /\ r2 = Pending

\* Iterator::sum::<Result<i64, _>> pulling one item: the end of the lines
\* returns Ok(sum), an Err item is returned at once, an Ok item is added.
SumStep(item, items, d, next) ==
    IF k = Len(Lines(text))
    THEN /\ d' = DOk(sum)
         /\ dpc' = next
         /\ k' = 0 /\ sum' = <<>>
         /\ UNCHANGED items
    ELSE /\ items' = Append(items, item)
         /\ IF item.tag # "Ok"
            THEN d' = item /\ dpc' = next /\ k' = 0 /\ sum' = <<>>
            ELSE LET s == I64Add(I64(sum), I64(item.val))
                 IN  IF s.ovf /\ checks
                     THEN d' = DErr("Panic") /\ dpc' = next
                          /\ k' = 0 /\ sum' = <<>>
                     ELSE sum' = s.val /\ k' = k + 1 /\ UNCHANGED <<d, dpc>>

DPart1 ==
    /\ dpc = "part1"
    /\ SumStep(IF k < Len(Lines(text)) THEN Item1(Lines(text)[k + 1])
               ELSE DPending, items1, d1, "part2")
    /\ UNCHANGED <<text, checks, items2, d2>>
    /\ UNCHANGED day1vars

DPart2 ==
    /\ dpc = "part2"
    /\ SumStep(IF k < Len(Lines(text)) THEN Item2(Lines(text)[k + 1])
               ELSE DPending, items2, d2, "done")
    /\ UNCHANGED <<text, checks, items1, d1>>
    /\ UNCHANGED day1vars

NextDay2 == DPart1 \/ DPart2

\* day2::part1 followed by day2::part2 on one input, in one build.
SpecDay2 == InitDay2 /\ [][NextDay2]_vars

(***************************************************************************)
(* Day 2, properties.  The formulas of the puzzle are stated here over     *)
(* exact numbers of any size.                                              *)
(***************************************************************************)

BMin3(a, b, c) ==
    LET m == IF BLess(b, a) THEN b ELSE a
    IN  IF BLess(c, m) THEN c ELSE m

\* 2*(l*w + w*h + h*l) + min(l*w, w*h, h*l)
PaperFormula(dim) ==
    LET lw == BMul(dim.length, dim.width)
        wh == BMul(dim.width, dim.height)
        hl == BMul(dim.height, dim.length)
    IN  BAdd(BMul(<<2>>, BAdd(BAdd(lw, wh), hl)), BMin3(lw, wh, hl))

\* 2*min(l+w, w+h, h+l) + l*w*h
RibbonFormula(dim) ==
    LET lw == BAdd(dim.length, dim.width)
        wh == BAdd(dim.width, dim.height)
        hl == BAdd(dim.height, dim.length)
    IN  BAdd(BMul(<<2>>, BMin3(lw, wh, hl)),
             BMul(BMul(dim.length, dim.width), dim.height))

Parses(line) == from_str(line).tag = "Ok"

BadLines(ls) == {i \in 1..Len(ls) : ~Parses(ls[i])}

\* The exact sums of the two formulas over the lines of ls that parse.
RECURSIVE PaperTotal(_)
PaperTotal(ls) ==
    IF ls = <<>> THEN <<>>
    ELSE BAdd(IF Parses(Head(ls)) THEN PaperFormula(from_str(Head(ls)).dim)
              ELSE <<>>,
              PaperTotal(Tail(ls)))

RECURSIVE RibbonTotal(_)
RibbonTotal(ls) ==
    IF ls = <<>> THEN <<>>
    ELSE BAdd(IF Parses(Head(ls)) THEN RibbonFormula(from_str(Head(ls)).dim)
              ELSE <<>>,
              RibbonTotal(Tail(ls)))

\* Every piece of s between two "x"s.
Fields(s) == SplitN(s, Len(s) + 1)

\* C5: for every line that parses into three dimensions, the value of
\* wrapping_paper that part1 sums is 2*(l*w + w*h + h*l) + min(l*w, w*h, h*l);
\* "2x3x4" gives 58 and "1x1x10" gives 43.
C5_WrappingPaperFormula ==
    \A i \in 1..Len(items1) :
        LET line == Lines(text)[i]
        IN  /\ Parses(line) => items1[i] = DOk(PaperFormula(from_str(line).dim))
            /\ line = <<"2", "x", "3", "x", "4">> => items1[i] = DOk(<<58>>)
            /\ line = <<"1", "x", "1", "x", "1", "0">> => items1[i] = DOk(<<43>>)

\* C6: for every line that parses into three dimensions, the value of ribbon
\* that part2 sums is 2*min(l+w, w+h, h+l) + l*w*h; "2x3x4" gives 34 and
\* "1x1x10" gives 14.
C6_RibbonFormula ==
    \A i \in 1..Len(items2) :
        LET line == Lines(text)[i]
        IN  /\ Parses(line) => items2[i] = DOk(RibbonFormula(from_str(line).dim))
            /\ line = <<"2", "x", "3", "x", "4">> => items2[i] = DOk(<<34>>)
            /\ line = <<"1", "x", "1", "x", "1", "0">> => items2[i] = DOk(<<14>>)

\* C7: part1 is strict: when some line fails to parse it returns the error
\* of the first such line, and when every line parses it returns Ok of the
\* sum of the wrapping-paper values of all lines.
C7_Part1Strict ==
    dpc # "part1" =>
        LET ls == Lines(text)
        IN  IF BadLines(ls) # {}
            THEN d1 = DErr(from_str(ls[MinOf(BadLines(ls))]).tag)
            ELSE d1 = DOk(PaperTotal(ls))

\* C8: a line of more than three "x"-separated fields, each a valid dimension,
\* fails to parse with TooManyDimensions.
C8_TooManyDimensions ==
    \A i \in 1..Len(items1) :
        LET fs == Fields(Lines(text)[i])
        IN  (Len(fs) > 3 /\ \A f \in 1..Len(fs) : ParseTerm(fs[f]).tag = "Ok")
                => items1[i] = DErr("TooManyDimensions")

\* C9: part2 leaves out the lines that do not parse and returns Ok of the sum
\* of the ribbon values of the lines that do.
C9_Part2SkipsInvalid ==
    dpc = "done" => d2 = DOk(RibbonTotal(Lines(text)))

\* C10: on lines that parse, no product or sum of wrapping_paper and ribbon
\* and no running sum of part1 and part2 leaves the range of i64: nothing
\* overflows, and the results are the exact values.
C10_NoOverflow ==
    LET ls == Lines(text)
    IN  /\ \A i \in 1..Len(items1) :
            Parses(ls[i]) => /\ ~wrapping_paper(from_str(ls[i]).dim).ovf
                             /\ items1[i].tag = "Ok"
        /\ \A i \in 1..Len(items2) :
            Parses(ls[i]) => /\ ~ribbon(from_str(ls[i]).dim).ovf
                             /\ items2[i].tag = "Ok"
        /\ d1.tag # "Panic" /\ d2.tag # "Panic"
        /\ ~IsNeg(sum)
        /\ (d1.tag = "Ok" /\ BadLines(ls) = {}) => d1.val = PaperTotal(ls)
        /\ (d2.tag = "Ok" /\ BadLines(ls) = {}) => d2.val = RibbonTotal(ls)

====
